---- MODULE Spec2Model ----
(***************************************************************************)
(* Model of the kea-disposables plugin (src/src/index.ts): the per-logic   *)
(* registry of cleanup functions, its add / dispose protocol and the      *)
(* afterMount / beforeUnmount handlers that create and drain it.          *)
(*                                                                         *)
(* A cleanup function returned by a setup is modelled as a resource id    *)
(* (an index into res); res[r].calls counts how often it was invoked.     *)
(* A JavaScript Map is modelled as a sequence of [key, value] pairs in    *)
(* insertion order, which is the order Map.forEach visits them in.        *)
(***************************************************************************)
EXTENDS Integers, Sequences, FiniteSets, TLC

\* ---------------------------------------------------------------- bounds
MaxRes == 2        \* setups that return a cleanup, over the whole run
MaxMount == 2      \* concurrent mount claims on one logic
MaxCounter == 2    \* unkeyed add calls per registry lifetime
MaxCalls == 2      \* invocations of one cleanup function
MaxVisRes == 4     \* teardown functions made while the coordinator runs
MaxOrderRes == 3   \* cleanup functions made in SpecOrder

\* ------------------------------------------------------------ value sets
Owners == {"a", "b"}                 \* logic.pathString values
Logics == {"a"}                      \* the logics that Spec mounts and uses
NoKey == "<undefined>"               \* the key argument left out
AutoKey(n) == "__auto_" \o ToString(n)
CallerKeys == {"", "k", AutoKey(0)}  \* strings a caller passes as key
AddKeys == CallerKeys \cup {NoKey}
DisposeKeys == CallerKeys \cup {AutoKey(1)}

\* ------------------------------------------------------------- variables
VARIABLES
    logicDisposables,  \* Map<pathString, {disposables, keyCounter}>
    mountCount,        \* kea's mount counter per pathString
    res,               \* every cleanup function a setup has returned
    lastOp,            \* what the most recent handler call did
    ended,             \* cleanup functions of lifetimes that are over
                       \* (kept by SpecLife only)
    coordinator,       \* the visibility coordinator (used by SpecVis only)
    paused             \* per logic, the entries a hidden page has paused

vars == <<logicDisposables, mountCount, res, lastOp, ended, coordinator, paused>>

\* ------------------------------------------------- Map<string, T> helpers
MapKeys(m) == {m[i].key : i \in 1..Len(m)}
MapValues(m) == {m[i].value : i \in 1..Len(m)}
\* `k && m.has(k)`: an empty-string key is taken for a missing one
MapHasTruthy(m, k) == k # "" /\ k \in MapKeys(m)

MapHas(m, k) == k \in MapKeys(m)
MapIndex(m, k) == CHOOSE i \in 1..Len(m) : m[i].key = k
MapGet(m, k) == m[MapIndex(m, k)].value

\* a set that moves a key it replaces to the end
MapSetMovesToEnd(m, k, v) ==
    Append(SelectSeq(m, LAMBDA e : e.key # k), [key |-> k, value |-> v])

MapSet(m, k, v) ==
    IF MapHas(m, k)
    THEN [m EXCEPT ![MapIndex(m, k)] = [key |-> k, value |-> v]]
    ELSE Append(m, [key |-> k, value |-> v])

\* a delete that drops the oldest entry whatever the key
MapDeleteOldest(m, k) == IF m = <<>> THEN m ELSE Tail(m)

\* dispose without logicData.disposables.delete(key)
MapDeleteSkipped(m, k) == m

MapDelete(m, k) ==
    IF MapHas(m, k)
    THEN LET i == MapIndex(m, k)
         IN  SubSeq(m, 1, i - 1) \o SubSeq(m, i + 1, Len(m))
    ELSE m

\* ------------------------------------------------------ JavaScript values
\* `key && ...`: undefined and the empty string are falsy
Truthy(key) == key # NoKey /\ key # ""

\* `key ?? `__auto_${keyCounter++}``
DisposableKey(key, keyCounter) ==
    IF key = NoKey THEN AutoKey(keyCounter) ELSE key

\* the counter read without the ++
NextKeyCounterStuck(key, keyCounter) == keyCounter

NextKeyCounter(key, keyCounter) ==
    IF key = NoKey THEN keyCounter + 1 ELSE keyCounter

\* --------------------------------------------------- running one handler
\* The effect of a handler so far: the cleanup functions, the callbacks run
\* in order, the console.error calls and whether an exception is in flight.
Start(rs) == [res |-> rs, events |-> <<>>, logs |-> 0, threw |-> FALSE]

Event(e, r, threw) == [e |-> e, r |-> r, threw |-> threw]

\* cleanup() with the try / catch left out: the exception goes on
TryCleanupNoCatch(st, r, throws) ==
    [res    |-> [st.res EXCEPT ![r].calls = @ + 1],
     events |-> Append(st.events, Event("cleanup", r, throws)),
     logs   |-> st.logs,
     threw  |-> throws]

\* try { cleanup() } catch (error) { console.error(...) }
\* `throws` says whether this call of the cleanup function throws
TryCleanup(st, r, throws) ==
    [res    |-> [st.res EXCEPT ![r].calls = @ + 1],
     events |-> Append(st.events, Event("cleanup", r, throws)),
     logs   |-> IF throws THEN st.logs + 1 ELSE st.logs,
     threw  |-> FALSE]

NewCleanup(o, key, disposableKey) ==
    [owner |-> o, key |-> key, disposableKey |-> disposableKey, calls |-> 0]

\* setup() called a second time, the first cleanup function kept
RunSetupTwice(st, o, key, disposableKey, setupThrows) ==
    IF setupThrows
    THEN [st EXCEPT !.events = Append(@, Event("setup", 0, TRUE)),
                    !.threw = TRUE]
    ELSE [st EXCEPT
            !.events = @ \o <<Event("setup", Len(st.res) + 1, FALSE),
                              Event("setup", Len(st.res) + 2, FALSE)>>,
            !.res = @ \o <<NewCleanup(o, key, disposableKey),
                           NewCleanup(o, key, disposableKey)>>]

\* setup() wrapped in a try / catch that logs and goes on
RunSetupCaught(st, o, key, disposableKey, setupThrows) ==
    IF setupThrows
    THEN [st EXCEPT !.events = Append(@, Event("setup", 0, TRUE)),
                    !.logs = @ + 1]
    ELSE [st EXCEPT
            !.events = Append(@, Event("setup", Len(st.res) + 1, FALSE)),
            !.res = Append(@, NewCleanup(o, key, disposableKey))]

\* const cleanup = setup(): a setup that throws ends the handler, one that
\* returns hands back a new cleanup function
RunSetup(st, o, key, disposableKey, setupThrows) ==
    IF setupThrows
    THEN [st EXCEPT !.events = Append(@, Event("setup", 0, TRUE)),
                    !.threw = TRUE]
    ELSE [st EXCEPT
            !.events = Append(@, Event("setup", Len(st.res) + 1, FALSE)),
            !.res = Append(@, NewCleanup(o, key, disposableKey))]

\* logicData.disposables.forEach((disposable) => { try ... catch ... })
\* `throwers` are the cleanup functions that throw when called
RECURSIVE ForEachDisposable(_, _, _)
ForEachDisposable(m, st, throwers) ==
    IF m = <<>> \/ st.threw
    THEN st
    ELSE ForEachDisposable(Tail(m),
                           TryCleanup(st, Head(m).value, Head(m).value \in throwers),
                           throwers)

\* if (logicData), the isMounted() test left out
FinalUnmountEveryTime(o, hasData, counter) == hasData

\* if (logicData && !logic.isMounted())
IsMounted(o, counter) == counter[o] > 0

FinalUnmount(o, hasData, counter) == hasData /\ ~IsMounted(o, counter)

\* ------------------------------------------------------------------ Init
NoCoordinator == [owners |-> {}, listeners |-> 0, hidden |-> FALSE]

NoData == [present |-> FALSE, disposables |-> <<>>, keyCounter |-> 0]

NoOp == [op |-> "init", owner |-> "", key |-> NoKey, before |-> NoData,
         events |-> <<>>, logs |-> 0, threw |-> FALSE, result |-> FALSE]

Init ==
    /\ logicDisposables = [p \in {} |-> 0]
    /\ mountCount = [o \in Owners |-> 0]
    /\ res = <<>>
    /\ lastOp = NoOp
    /\ ended = {}
    /\ coordinator = NoCoordinator
    /\ paused = [o \in Owners |-> <<>>]

HasData(o) == o \in DOMAIN logicDisposables

\* const logicData = logicDisposables.get(logic.pathString)
LogicData(o) ==
    IF HasData(o)
    THEN [present |-> TRUE, disposables |-> logicDisposables[o].disposables,
          keyCounter |-> logicDisposables[o].keyCounter]
    ELSE NoData

\* The record of one handler call: the logicData it found, the callbacks it
\* ran, its console.error calls, whether it threw and what it returned.
Done(op, o, key, st, result) ==
    [op |-> op, owner |-> o, key |-> key, before |-> LogicData(o),
     events |-> st.events, logs |-> st.logs, threw |-> st.threw,
     result |-> result]

\* --------------------------------------------------------------- actions
\* a mount whose afterMount handler runs on every claim
MountAlwaysFresh(o) ==
    /\ mountCount[o] < MaxMount
    /\ mountCount' = [mountCount EXCEPT ![o] = @ + 1]
    /\ logicDisposables' =
         [p \in DOMAIN logicDisposables \cup {o} |->
            IF p = o THEN [disposables |-> <<>>, keyCounter |-> 0]
            ELSE logicDisposables[p]]
    /\ lastOp' = Done("mount", o, NoKey, Start(res), FALSE)
    /\ UNCHANGED res

\* logic.mount(): kea counts the claim and runs afterMount on the first one
Mount(o) ==
    /\ mountCount[o] < MaxMount
    /\ mountCount' = [mountCount EXCEPT ![o] = @ + 1]
    /\ logicDisposables' =
         IF mountCount[o] = 0
         THEN [p \in DOMAIN logicDisposables \cup {o} |->
                 IF p = o THEN [disposables |-> <<>>, keyCounter |-> 0]
                 ELSE logicDisposables[p]]
         ELSE logicDisposables
    /\ lastOp' = Done("mount", o, NoKey, Start(res), FALSE)
    /\ UNCHANGED res

\* a drain that clears the whole index
DeleteEveryLogic(ld, o) == [p \in {} |-> 0]

\* the drain without logicDisposables.delete(logic.pathString)
DeleteLogicSkipped(ld, o) == ld

\* logicDisposables.delete(logic.pathString)
DeleteLogic(ld, o) == [p \in DOMAIN ld \ {o} |-> ld[p]]

\* logic.unmount(): kea drops the claim; the beforeUnmount handler drains
\* the registry once logic.isMounted() is false
Unmount(o, throwers) ==
    /\ mountCount[o] > 0
    /\ LET counter == [mountCount EXCEPT ![o] = @ - 1]
           final == FinalUnmount(o, HasData(o), counter)
           m == IF HasData(o) THEN logicDisposables[o].disposables ELSE <<>>
           st == IF final THEN ForEachDisposable(m, Start(res), throwers) ELSE Start(res)
       IN  /\ throwers \subseteq (IF final THEN MapValues(m) ELSE {})
           /\ final => \A i \in 1..Len(m) : res[m[i].value].calls < MaxCalls
           /\ mountCount' = counter
           /\ res' = st.res
           /\ logicDisposables' =
                IF final /\ ~st.threw
                THEN DeleteLogic(logicDisposables, o)
                ELSE logicDisposables
           /\ lastOp' = Done("unmount", o, NoKey, st, final)

\* an add without `if (logicData)`: it calls setup for a logic that has no
\* record
AddWithoutGuard(o, key, setupThrows, previousThrows) ==
    /\ ~HasData(o)
    /\ ~setupThrows /\ ~previousThrows
    /\ Len(res) < MaxRes
    /\ LET st == RunSetup(Start(res), o, key, DisposableKey(key, 0), FALSE)
       IN  /\ res' = st.res
           /\ lastOp' = Done("add", o, key, st, TRUE)
    /\ UNCHANGED <<logicDisposables, mountCount>>

\* disposables.add(setup, key): the caller's setup either returns a cleanup
\* function or throws; a replaced cleanup function may throw
\* (previousThrows); limit bounds the cleanup functions made over the run
AddUpTo(limit, o, key, setupThrows, previousThrows) ==
    IF ~HasData(o)
    THEN /\ ~setupThrows /\ ~previousThrows
         /\ lastOp' = Done("add", o, key, Start(res), FALSE)
         /\ UNCHANGED <<logicDisposables, mountCount, res>>
    ELSE LET logicData == logicDisposables[o]
             disposableKey == DisposableKey(key, logicData.keyCounter)
             keyCounter == NextKeyCounter(key, logicData.keyCounter)
             replacing == Truthy(key) /\ MapHas(logicData.disposables, disposableKey)
             previousCleanup == MapGet(logicData.disposables, disposableKey)
             st1 == IF replacing
                    THEN TryCleanup(Start(res), previousCleanup, previousThrows)
                    ELSE Start(res)
             cleanup == Len(res) + 1
             st2 == IF st1.threw THEN st1
                    ELSE RunSetup(st1, o, key, disposableKey, setupThrows)
         IN  /\ previousThrows => replacing
             /\ key = NoKey => logicData.keyCounter < MaxCounter
             /\ ~setupThrows => Len(res) < limit
             /\ replacing => res[previousCleanup].calls < MaxCalls
             /\ res' = st2.res
             /\ logicDisposables' =
                  [logicDisposables EXCEPT ![o] =
                     [disposables |-> IF st2.threw THEN logicData.disposables
                                      ELSE MapSet(logicData.disposables,
                                                  disposableKey, cleanup),
                      keyCounter |-> keyCounter]]
             /\ lastOp' = Done("add", o, key, st2, ~st2.threw)
             /\ UNCHANGED mountCount

Add(o, key, setupThrows, previousThrows) ==
    AddUpTo(MaxRes, o, key, setupThrows, previousThrows)

\* disposables.dispose(key)
Dispose(o, key, throws) ==
    IF HasData(o) /\ MapHas(logicDisposables[o].disposables, key)
    THEN LET logicData == logicDisposables[o]
             cleanup == MapGet(logicData.disposables, key)
             st == TryCleanup(Start(res), cleanup, throws)
         IN  /\ res[cleanup].calls < MaxCalls
             /\ res' = st.res
             /\ logicDisposables' =
                  IF st.threw THEN logicDisposables
                  ELSE [logicDisposables EXCEPT ![o].disposables =
                          MapDelete(@, key)]
             /\ lastOp' = Done("dispose", o, key, st, ~st.threw)
             /\ UNCHANGED mountCount
    ELSE /\ ~throws
         /\ lastOp' = Done("dispose", o, key, Start(res), FALSE)
         /\ UNCHANGED <<logicDisposables, mountCount, res>>

Next ==
    \/ \E o \in Logics : Mount(o) /\ UNCHANGED <<ended, coordinator, paused>>
    \/ \E o \in Logics, throwers \in SUBSET (1..Len(res)) :
          Unmount(o, throwers) /\ UNCHANGED <<ended, coordinator, paused>>
    \/ \E o \in Logics, key \in AddKeys, setupThrows, previousThrows \in BOOLEAN :
          Add(o, key, setupThrows, previousThrows) /\ UNCHANGED <<ended, coordinator, paused>>
    \/ \E o \in Logics, key \in DisposeKeys, throws \in BOOLEAN :
          Dispose(o, key, throws) /\ UNCHANGED <<ended, coordinator, paused>>

Spec == Init /\ [][Next]_vars

\* ------------------------------------------------- registry lifetimes
\* The same handlers, with a record of the cleanup functions whose logic has
\* since had its final unmount; callers use one ordinary key or none.
LifeKeys == {"k", NoKey}
LifeDisposeKeys == {"k", AutoKey(0)}

\* the beforeUnmount handler run once more for a logic whose mount count is
\* already 0
BeforeUnmountAgain(o) ==
    /\ mountCount[o] = 0
    /\ LET final == FinalUnmount(o, HasData(o), mountCount)
           m == IF HasData(o) THEN logicDisposables[o].disposables ELSE <<>>
           st == IF final THEN ForEachDisposable(m, Start(res), {}) ELSE Start(res)
       IN  /\ final => \A i \in 1..Len(m) : res[m[i].value].calls < MaxCalls
           /\ res' = st.res
           /\ logicDisposables' =
                IF final THEN DeleteLogic(logicDisposables, o) ELSE logicDisposables
           /\ lastOp' = Done("drain", o, NoKey, st, final)
           /\ UNCHANGED mountCount

EndedBy(o) ==
    IF mountCount'[o] = 0
    THEN ended \cup {r \in 1..Len(res) : res[r].owner = o}
    ELSE ended

NextLife ==
    \/ \E o \in Logics : Mount(o) /\ UNCHANGED <<ended, coordinator, paused>>
    \/ \E o \in Logics, throwers \in SUBSET (1..Len(res)) :
          Unmount(o, throwers) /\ ended' = EndedBy(o)
                               /\ UNCHANGED <<coordinator, paused>>
    \/ \E o \in Logics, key \in LifeKeys, setupThrows, previousThrows \in BOOLEAN :
          Add(o, key, setupThrows, previousThrows) /\ UNCHANGED <<ended, coordinator, paused>>
    \/ \E o \in Logics, key \in LifeDisposeKeys, throws \in BOOLEAN :
          Dispose(o, key, throws) /\ UNCHANGED <<ended, coordinator, paused>>
    \/ \E o \in Logics :
          BeforeUnmountAgain(o) /\ UNCHANGED <<ended, coordinator, paused>>

SpecLife == Init /\ [][NextLife]_vars

\* ------------------------------------------------------------ two logics
\* Both logics of Owners mount, add, dispose and unmount, with the same key
\* strings and with setups and cleanup functions that do not throw.
TwoKeys == {"k", NoKey}

NextTwo ==
    \/ \E o \in Owners : Mount(o) /\ UNCHANGED <<ended, coordinator, paused>>
    \/ \E o \in Owners : Unmount(o, {}) /\ UNCHANGED <<ended, coordinator, paused>>
    \/ \E o \in Owners, key \in TwoKeys :
          Add(o, key, FALSE, FALSE) /\ UNCHANGED <<ended, coordinator, paused>>
    \/ \E o \in Owners :
          Dispose(o, "k", FALSE) /\ UNCHANGED <<ended, coordinator, paused>>

SpecTwo == Init /\ [][NextTwo]_vars

\* ---------------------------------------------------------- drain order
\* One logic with three cleanup functions, none of which throws.
OrderKeys == {"k", NoKey}

NextOrder ==
    \/ \E o \in Logics : Mount(o) /\ UNCHANGED <<ended, coordinator, paused>>
    \/ \E o \in Logics : Unmount(o, {}) /\ UNCHANGED <<ended, coordinator, paused>>
    \/ \E o \in Logics, key \in OrderKeys :
          AddUpTo(MaxOrderRes, o, key, FALSE, FALSE)
             /\ UNCHANGED <<ended, coordinator, paused>>
    \/ \E o \in Logics :
          Dispose(o, "k", FALSE) /\ UNCHANGED <<ended, coordinator, paused>>

SpecOrder == Init /\ [][NextOrder]_vars

\* ----------------------------------------------------------- re-entrancy
\* Cleanup functions that call disposables.dispose(key) of their own logic
\* from inside their first run.  res[r].disposes is the key such a function
\* passes (NoKey for a function that calls nothing).  A call runs on the
\* Map it finds: x.m is the logic's disposables Map while handlers nest.
ReKeys == {"k", "j"}

ReCleanup(o, key, disposes) ==
    [owner |-> o, key |-> key, disposableKey |-> key, calls |-> 0,
     disposes |-> disposes]

\* cleanup(): counts the invocation, then runs the function's body, which on
\* the first run calls dispose(res[r].disposes)
RECURSIVE CallCleanup(_, _)
\* dispose(key), lines 63-81, called while another handler is running
RECURSIVE DisposeIn(_, _)

CallCleanup(x, r) ==
    LET first == x.st.res[r].calls = 0
        x1 == [x EXCEPT !.st = TryCleanup(@, r, FALSE)]
    IN  IF first /\ x.st.res[r].disposes # NoKey
        THEN DisposeIn(x1, x.st.res[r].disposes)
        ELSE x1

DisposeIn(x, key) ==
    IF MapHas(x.m, key)
    THEN LET x1 == CallCleanup(x, MapGet(x.m, key))
         IN  [x1 EXCEPT !.m = MapDelete(@, key)]
    ELSE x

\* Map.forEach over a Map that the callbacks may delete from: the next
\* entry visited is the first one not visited yet that is still in the Map
RECURSIVE ForEachLive(_, _)
ForEachLive(x, visited) ==
    LET rest == SelectSeq(x.m, LAMBDA e : e.key \notin visited)
    IN  IF rest = <<>> THEN x
        ELSE ForEachLive(CallCleanup(x, Head(rest).value),
                         visited \cup {Head(rest).key})

\* disposables.add(setup, key) with a key; the setup returns a cleanup
\* function that disposes `disposes`
ReAdd(o, key, disposes) ==
    /\ HasData(o)
    /\ Len(res) < MaxRes
    /\ LET logicData == logicDisposables[o]
           x0 == [st |-> Start(res), m |-> logicData.disposables]
           x1 == IF MapHas(x0.m, key) THEN CallCleanup(x0, MapGet(x0.m, key)) ELSE x0
           cleanup == Len(res) + 1
           st2 == [x1.st EXCEPT
                     !.res = Append(@, ReCleanup(o, key, disposes)),
                     !.events = Append(@, Event("setup", cleanup, FALSE))]
       IN  /\ res' = st2.res
           /\ logicDisposables' =
                [logicDisposables EXCEPT ![o].disposables = MapSet(x1.m, key, cleanup)]
           /\ lastOp' = Done("add", o, key, st2, TRUE)
    /\ UNCHANGED mountCount

\* disposables.dispose(key) called from outside any handler
ReDispose(o, key) ==
    /\ HasData(o)
    /\ LET logicData == logicDisposables[o]
           x == DisposeIn([st |-> Start(res), m |-> logicData.disposables], key)
       IN  /\ res' = x.st.res
           /\ logicDisposables' = [logicDisposables EXCEPT ![o].disposables = x.m]
           /\ lastOp' = Done("dispose", o, key, x.st, MapHas(logicData.disposables, key))
    /\ UNCHANGED mountCount

\* logic.unmount(): the final one drains with forEach, then deletes the record
ReUnmount(o) ==
    /\ mountCount[o] > 0
    /\ LET counter == [mountCount EXCEPT ![o] = @ - 1]
           final == FinalUnmount(o, HasData(o), counter)
           x0 == [st |-> Start(res),
                  m |-> IF HasData(o) THEN logicDisposables[o].disposables ELSE <<>>]
           x == IF final THEN ForEachLive(x0, {}) ELSE x0
       IN  /\ mountCount' = counter
           /\ res' = x.st.res
           /\ logicDisposables' =
                IF final THEN DeleteLogic(logicDisposables, o) ELSE logicDisposables
           /\ lastOp' = Done("unmount", o, NoKey, x.st, final)

NextReentry ==
    \/ \E o \in Logics : Mount(o) /\ UNCHANGED <<ended, coordinator, paused>>
    \/ \E o \in Logics : ReUnmount(o) /\ UNCHANGED <<ended, coordinator, paused>>
    \/ \E o \in Logics, key \in ReKeys, disposes \in ReKeys \cup {NoKey} :
          ReAdd(o, key, disposes) /\ UNCHANGED <<ended, coordinator, paused>>
    \/ \E o \in Logics, key \in ReKeys :
          ReDispose(o, key) /\ UNCHANGED <<ended, coordinator, paused>>

SpecReentry == Init /\ [][NextReentry]_vars

\* ------------------------------------------- the visibility coordinator
\* The coordinator, the pausable option and the pause and resume passes are
\* written from spec.md 3, 4.1, 4.2, 4.3 and 4.4.  Both logics of Owners
\* act here.  coordinator.listeners is the number of visibilitychange
\* listeners attached to the document.
VisKeys == {"k", NoKey}

\* a teardown function made by a setup; setup names the callback that made
\* it (the first teardown that callback ever returned)
VisCleanup(o, key, disposableKey, pausable, setup) ==
    [owner |-> o, key |-> key, disposableKey |-> disposableKey, calls |-> 0,
     pausable |-> pausable, setup |-> setup]

\* register that attaches a listener on every call
RegisterAlwaysSubscribes(c, o) ==
    [c EXCEPT !.owners = @ \cup {o}, !.listeners = @ + 1]

\* register(ownerId, registry)
Register(c, o) ==
    [c EXCEPT !.owners = @ \cup {o},
              !.listeners = IF c.owners = {} THEN @ + 1 ELSE @]

\* unregister(ownerId)
Unregister(c, o) ==
    [c EXCEPT !.owners = @ \ {o},
              !.listeners = IF c.owners # {} /\ c.owners \ {o} = {}
                            THEN @ - 1 ELSE @]

\* the record of one call, with every registry and paused list it found
VisDone(op, o, key, st, result) ==
    [op |-> op, owner |-> o, key |-> key, before |-> LogicData(o),
     events |-> st.events, logs |-> st.logs, threw |-> st.threw,
     result |-> result, registries |-> logicDisposables, paused |-> paused]

\* activation: the first one starts an empty registry and registers it
VisMount(o) ==
    /\ mountCount' = [mountCount EXCEPT ![o] = @ + 1]
    /\ logicDisposables' =
         IF mountCount[o] = 0
         THEN [p \in DOMAIN logicDisposables \cup {o} |->
                 IF p = o THEN [disposables |-> <<>>, keyCounter |-> 0]
                 ELSE logicDisposables[p]]
         ELSE logicDisposables
    /\ coordinator' = IF mountCount[o] = 0 THEN Register(coordinator, o)
                      ELSE coordinator
    /\ lastOp' = VisDone("mount", o, NoKey, Start(res), FALSE)
    /\ UNCHANGED <<res, paused, ended>>

\* deactivation: reaching 0 drains every remaining entry, removes the
\* registry with its paused list and unregisters the owner
VisUnmount(o) ==
    /\ mountCount[o] > 0
    /\ LET final == mountCount[o] = 1
           m == logicDisposables[o].disposables
           st == IF final THEN ForEachDisposable(m, Start(res), {}) ELSE Start(res)
       IN  /\ mountCount' = [mountCount EXCEPT ![o] = @ - 1]
           /\ res' = st.res
           /\ logicDisposables' = IF final THEN DeleteLogic(logicDisposables, o)
                                  ELSE logicDisposables
           /\ paused' = IF final THEN [paused EXCEPT ![o] = <<>>] ELSE paused
           /\ coordinator' = IF final THEN Unregister(coordinator, o)
                             ELSE coordinator
           /\ lastOp' = VisDone("unmount", o, NoKey, st, final)
           /\ UNCHANGED ended

\* add(setup, key?, options?)
VisAdd(o, key, pausable) ==
    /\ HasData(o)
    /\ Len(res) < MaxVisRes
    /\ LET logicData == logicDisposables[o]
           supplied == key # NoKey
           disposableKey == IF supplied THEN key ELSE AutoKey(logicData.keyCounter)
           replacing == supplied /\ MapHas(logicData.disposables, disposableKey)
           st1 == IF replacing
                  THEN TryCleanup(Start(res), MapGet(logicData.disposables, disposableKey), FALSE)
                  ELSE Start(res)
           cleanup == Len(res) + 1
           st2 == [st1 EXCEPT
                     !.res = Append(@, VisCleanup(o, key, disposableKey, pausable, cleanup)),
                     !.events = Append(@, Event("setup", cleanup, FALSE))]
       IN  /\ ~supplied => logicData.keyCounter < MaxCounter
           /\ res' = st2.res
           /\ logicDisposables' =
                [logicDisposables EXCEPT ![o] =
                   [disposables |-> MapSet(logicData.disposables, disposableKey, cleanup),
                    keyCounter |-> IF supplied THEN logicData.keyCounter
                                   ELSE logicData.keyCounter + 1]]
           /\ lastOp' = VisDone("add", o, key, st2, TRUE)
           /\ UNCHANGED <<mountCount, coordinator, paused, ended>>

\* the owners a visibility signal reaches: those registered, when a
\* listener is attached
Notified == IF coordinator.listeners > 0 THEN coordinator.owners ELSE {}

\* the orders in which one pass may visit the owners (4.3 leaves it open)
Orders(S) ==
    {q \in [1..Cardinality(S) -> S] :
        \A i, j \in 1..Cardinality(S) : q[i] = q[j] => i = j}

Range(q) == {q[i] : i \in 1..Len(q)}

\* the entries of a registry that a pause drains, in insertion order
PausableEntries(m, rs) == SelectSeq(m, LAMBDA e : rs[e.value].pausable)

\* a pause that leaves the drained entries in the registry
RetainsEverything(m, rs) == m

\* the entries a pause leaves in the registry
Retained(m, rs) == SelectSeq(m, LAMBDA e : ~rs[e.value].pausable)

\* the setup and key kept for each drained entry
PausedList(m, rs) ==
    LET d == PausableEntries(m, rs)
    IN  [i \in 1..Len(d) |-> [key |-> d[i].key, setup |-> rs[d[i].value].setup]]

\* a pause that drains every entry
PausePassEverything(m, st) == ForEachDisposable(m, st, {})

\* drainAll() as part of a pause
RECURSIVE PausePass(_, _)
PausePass(m, st) ==
    IF m = <<>> THEN st
    ELSE PausePass(Tail(m),
                   IF st.res[Head(m).value].pausable
                   THEN TryCleanup(st, Head(m).value, FALSE)
                   ELSE st)

\* a pass that stops after the first owner
PauseFirstOwner(order, st) ==
    IF order = <<>> THEN st
    ELSE PausePass(logicDisposables[Head(order)].disposables, st)

\* the pause pass over every registered owner's registry
RECURSIVE PauseOwners(_, _)
PauseOwners(order, st) ==
    IF order = <<>> THEN st
    ELSE PauseOwners(Tail(order),
                     PausePass(logicDisposables[Head(order)].disposables, st))

\* transition to hidden
Hide(order) ==
    /\ ~coordinator.hidden
    /\ order \in Orders(Notified)
    /\ LET st == PauseOwners(order, Start(res))
       IN  /\ res' = st.res
           /\ logicDisposables' =
                [o \in DOMAIN logicDisposables |->
                   IF o \in Range(order)
                   THEN [logicDisposables[o] EXCEPT !.disposables = Retained(@, res)]
                   ELSE logicDisposables[o]]
           /\ paused' =
                [o \in Owners |->
                   IF o \in Range(order)
                   THEN paused[o] \o PausedList(logicDisposables[o].disposables, res)
                   ELSE paused[o]]
           /\ lastOp' = VisDone("hide", "", NoKey, st, TRUE)
    /\ coordinator' = [coordinator EXCEPT !.hidden = TRUE]
    /\ UNCHANGED <<mountCount, ended>>

\* a resumed setup called without the wrapper
TrySetupNoCatch(st, o, p, throws) ==
    IF throws
    THEN [st EXCEPT !.events = Append(@, Event("resume", p.setup, TRUE)),
                    !.threw = TRUE]
    ELSE [st EXCEPT !.res = Append(@, VisCleanup(o, st.res[p.setup].key, p.key, TRUE, p.setup)),
                    !.events = Append(@, Event("resume", Len(st.res) + 1, FALSE))]

\* a resumed setup through the Safe-Invocation Wrapper: a failure is logged
\* and swallowed, a success returns a new teardown function
TrySetup(st, o, p, throws) ==
    IF throws
    THEN [st EXCEPT !.events = Append(@, Event("resume", p.setup, TRUE)),
                    !.logs = @ + 1]
    ELSE [st EXCEPT !.res = Append(@, VisCleanup(o, st.res[p.setup].key, p.key, TRUE, p.setup)),
                    !.events = Append(@, Event("resume", Len(st.res) + 1, FALSE))]

\* a resume pass that runs the setups and registers nothing
RECURSIVE ResumePassUnregistered(_, _, _, _)
ResumePassUnregistered(plist, o, x, thrown) ==
    IF plist = <<>> THEN x
    ELSE ResumePassUnregistered(
             Tail(plist), o,
             [x EXCEPT !.st = TrySetup(@, o, Head(plist), Head(plist).setup \in thrown)],
             thrown)

\* the resume pass over one paused list; x.registries collects the
\* reinserted entries
RECURSIVE ResumePass(_, _, _, _)
ResumePass(plist, o, x, thrown) ==
    IF plist = <<>> \/ x.st.threw THEN x
    ELSE LET p == Head(plist)
             throws == p.setup \in thrown
             st == TrySetup(x.st, o, p, throws)
         IN  ResumePass(Tail(plist), o,
                        [st |-> st,
                         registries |->
                            IF throws THEN x.registries
                            ELSE [x.registries EXCEPT ![o].disposables =
                                     MapSet(@, p.key, Len(st.res))]],
                        thrown)

\* the resume pass over every registered owner
RECURSIVE ResumeOwners(_, _, _)
ResumeOwners(order, x, thrown) ==
    IF order = <<>> THEN x
    ELSE ResumeOwners(Tail(order),
                      ResumePass(paused[Head(order)], Head(order), x, thrown),
                      thrown)

\* the setups a visible transition would re-run
PausedSetups ==
    UNION {{paused[o][i].setup : i \in 1..Len(paused[o])} : o \in Notified}

\* transition to visible; the setups in thrown fail this time
Show(order, thrown) ==
    /\ coordinator.hidden
    /\ order \in Orders(Notified)
    /\ thrown \subseteq PausedSetups
    /\ LET x == ResumeOwners(order, [st |-> Start(res), registries |-> logicDisposables], thrown)
       IN  /\ Len(x.st.res) <= MaxVisRes
           /\ res' = x.st.res
           /\ logicDisposables' = x.registries
           /\ paused' = [o \in Owners |-> IF o \in Range(order) THEN <<>> ELSE paused[o]]
           /\ lastOp' = VisDone("show", "", NoKey, x.st, TRUE)
    /\ coordinator' = [coordinator EXCEPT !.hidden = FALSE]
    /\ UNCHANGED <<mountCount, ended>>

\* the key names an entry that is paused at the moment
KeyPaused(o, key) == \E i \in 1..Len(paused[o]) : paused[o][i].key = key

\* Each logic is activated once at a time; logic "a" adds with every
\* combination of key and option, logic "b" with the defaults.  4.1 and 4.3
\* do not say what add does to a paused entry of the same key: no add is
\* made under a key while the entry of that key is paused.
NextVis ==
    \/ \E o \in Owners : mountCount[o] = 0 /\ VisMount(o)
    \/ \E o \in Owners : VisUnmount(o)
    \/ \E key \in VisKeys, pausable \in BOOLEAN :
          ~KeyPaused("a", key) /\ VisAdd("a", key, pausable)
    \/ VisAdd("b", NoKey, TRUE)
    \/ \E order \in Orders(Notified) : Hide(order)
    \/ \E order \in Orders(Notified), thrown \in SUBSET PausedSetups : Show(order, thrown)

SpecVis == Init /\ [][NextVis]_vars

\* register called again for an owner that is registered
RegisterAgain(o) ==
    /\ o \in coordinator.owners
    /\ coordinator' = Register(coordinator, o)
    /\ lastOp' = VisDone("register", o, NoKey, Start(res), TRUE)
    /\ UNCHANGED <<logicDisposables, mountCount, res, paused, ended>>

\* unregister called for an owner that is not registered
UnregisterAbsent(o) ==
    /\ o \notin coordinator.owners
    /\ coordinator' = Unregister(coordinator, o)
    /\ lastOp' = VisDone("unregister", o, NoKey, Start(res), TRUE)
    /\ UNCHANGED <<logicDisposables, mountCount, res, paused, ended>>

\* Registration: nested activations of both logics, entries with the
\* default options in logic "b" only.
NextReg ==
    \/ \E o \in Owners : mountCount[o] < MaxMount /\ VisMount(o)
    \/ \E o \in Owners : VisUnmount(o)
    \/ VisAdd("b", NoKey, TRUE)
    \/ \E order \in Orders(Notified) : Hide(order)
    \/ \E order \in Orders(Notified), thrown \in SUBSET PausedSetups : Show(order, thrown)
    \/ \E o \in Owners : RegisterAgain(o)
    \/ \E o \in Owners : UnregisterAbsent(o)

SpecReg == Init /\ [][NextReg]_vars

\* ------------------------------------------------------------ properties
\* lastOp is the record of the most recent handler call: lastOp.before is the
\* logicData the call found, LogicData(lastOp.owner) what it left behind.
ResOf(o) == {r \in 1..Len(res) : res[r].owner = o}
Entries(o) == logicDisposables[o].disposables
IsCleanupOf(ev, r) == ev.e = "cleanup" /\ ev.r = r
Before == lastOp.before.disposables
After == LogicData(lastOp.owner).disposables
TimesInvoked(r) ==
    Cardinality({i \in 1..Len(lastOp.events) : IsCleanupOf(lastOp.events[i], r)})

\* C1: once a logic's mount count is back at zero, the cleanup function of
\* every setup that add ran for it has been invoked
C1_NoLeakAtFinalUnmount ==
    \A o \in Owners :
        mountCount[o] = 0 => \A r \in ResOf(o) : res[r].calls >= 1

\* C2: no cleanup function returned by a setup is ever invoked more than once
C2_TeardownAtMostOnce ==
    \A r \in 1..Len(res) : res[r].calls <= 1

\* C3: with n mount claims, an unmount that leaves a claim invokes no cleanup
\* and removes no entry; the unmount that drops the last claim invokes the
\* cleanup of every entry still registered exactly once
C3_MountGating ==
    (lastOp.op = "unmount" /\ lastOp.before.present) =>
        IF mountCount[lastOp.owner] > 0
        THEN /\ lastOp.events = <<>>
             /\ LogicData(lastOp.owner) = lastOp.before
        ELSE /\ \A i \in 1..Len(lastOp.events) : lastOp.events[i].e = "cleanup"
             /\ \A r \in MapValues(Before) : TimesInvoked(r) = 1
             /\ \A r \in 1..Len(res) :
                   r \notin MapValues(Before) => TimesInvoked(r) = 0

C3_Witness ==
    /\ lastOp.op = "unmount"
    /\ mountCount["a"] = 1
    /\ HasData("a")
    /\ Len(Entries("a")) >= 2
    /\ \A r \in MapValues(Entries("a")) : res[r].calls = 0

\* C4: add with a string key (the empty string included) that the logic
\* already holds an entry for invokes the previous cleanup exactly once,
\* before the new setup runs, and then the key maps to the new cleanup
C4_KeyedReplacementOrder ==
    (/\ lastOp.op = "add"
     /\ lastOp.key \in CallerKeys
     /\ lastOp.before.present
     /\ lastOp.key \in MapKeys(Before)) =>
        /\ Len(lastOp.events) = 2
        /\ IsCleanupOf(lastOp.events[1], MapGet(Before, lastOp.key))
        /\ lastOp.events[2].e = "setup"
        /\ ~lastOp.threw => MapGet(After, lastOp.key) = lastOp.events[2].r

\* C5: for each logic and key at most one cleanup function registered under
\* that key is live (its setup has run, it has not been invoked)
C5_OneLivePerKey ==
    \A o \in Owners : \A r1, r2 \in ResOf(o) :
        (/\ res[r1].disposableKey = res[r2].disposableKey
         /\ res[r1].calls = 0 /\ res[r2].calls = 0) => r1 = r2

\* C6: add without a key invokes no cleanup, leaves every entry already in
\* the registry in place and, when it returns, has added exactly one entry
C6_UnkeyedAddIsAdditive ==
    (lastOp.op = "add" /\ lastOp.key = NoKey /\ lastOp.before.present) =>
        /\ \A i \in 1..Len(lastOp.events) : lastOp.events[i].e = "setup"
        /\ Len(After) >= Len(Before)
        /\ SubSeq(After, 1, Len(Before)) = Before
        /\ ~lastOp.threw => Len(After) = Len(Before) + 1

\* C7: dispose(key) returns true iff the registry held an entry for key when
\* it was called; when it returns false no cleanup is invoked and the
\* registry is unchanged
C7_DisposeResult ==
    lastOp.op = "dispose" =>
        /\ ~lastOp.threw
        /\ lastOp.result =
             (lastOp.before.present /\ lastOp.key \in MapKeys(Before))
        /\ ~lastOp.result =>
             /\ lastOp.events = <<>>
             /\ LogicData(lastOp.owner) = lastOp.before

C7_Witness ==
    /\ lastOp.op = "dispose"
    /\ ~lastOp.result
    /\ lastOp.before.present
    /\ Len(Before) >= 1

\* C8: dispose(key) of an entry whose cleanup throws lets no exception out,
\* still removes the entry and returns true
C8_DisposeSwallowsThrow ==
    (/\ lastOp.op = "dispose"
     /\ lastOp.events # <<>>
     /\ lastOp.events[1].threw) =>
        /\ ~lastOp.threw
        /\ lastOp.result
        /\ lastOp.key \in MapKeys(Before)
        /\ lastOp.key \notin MapKeys(After)
        /\ Len(After) = Len(Before) - 1

C8_Witness ==
    /\ lastOp.op = "dispose"
    /\ lastOp.events # <<>>
    /\ lastOp.events[1].threw
    /\ Len(After) >= 1

\* C9: while a logic has only been given add calls without a key, each add
\* that returns creates a new entry under a key of its own, and the final
\* drain invokes the cleanup of every entry in the order they were added
OnlyUnkeyed(o) == \A r \in ResOf(o) : res[r].key = NoKey

C9_UnkeyedDistinctAndOrdered ==
    (lastOp.before.present /\ OnlyUnkeyed(lastOp.owner)) =>
        /\ (lastOp.op = "add" /\ lastOp.key = NoKey /\ ~lastOp.threw) =>
              /\ Len(After) = Len(Before) + 1
              /\ SubSeq(After, 1, Len(Before)) = Before
              /\ After[Len(After)].key \notin MapKeys(Before)
              /\ After[Len(After)].value \notin MapValues(Before)
              /\ lastOp.events = <<Event("setup", After[Len(After)].value, FALSE)>>
        /\ (lastOp.op = "unmount" /\ mountCount[lastOp.owner] = 0) =>
              /\ Len(lastOp.events) = Len(Before)
              /\ \A i \in 1..Len(Before) :
                    IsCleanupOf(lastOp.events[i], Before[i].value)
              /\ \A i, j \in 1..Len(lastOp.events) :
                    i < j => lastOp.events[i].r < lastOp.events[j].r

C9_Witness ==
    /\ lastOp.op = "unmount"
    /\ mountCount["a"] = 0
    /\ OnlyUnkeyed("a")
    /\ Len(lastOp.events) >= 2

\* C10: in the final drain every registered cleanup is invoked, in insertion
\* order, whichever of them throw; no exception reaches the host and the
\* logic's registry is removed
C10_DrainIsolatesFailures ==
    (/\ lastOp.op = "unmount"
     /\ lastOp.before.present
     /\ mountCount[lastOp.owner] = 0) =>
        /\ ~lastOp.threw
        /\ [i \in 1..Len(lastOp.events) |-> lastOp.events[i].r]
              = [i \in 1..Len(Before) |-> Before[i].value]
        /\ \A i \in 1..Len(lastOp.events) : lastOp.events[i].e = "cleanup"
        /\ ~HasData(lastOp.owner)

C10_Witness ==
    /\ lastOp.op = "unmount"
    /\ Len(lastOp.events) >= 2
    /\ lastOp.events[1].threw
    /\ ~lastOp.events[2].threw
    /\ ~HasData("a")

\* C11 as first stated: every add call runs the supplied setup exactly once
\* before it returns
C11_EveryAddRunsSetup ==
    lastOp.op = "add" =>
        Cardinality({i \in 1..Len(lastOp.events) : lastOp.events[i].e = "setup"}) = 1

\* C11: every add call on a logic that has a registry runs the supplied
\* setup exactly once, as the last thing it does, and leaves the cleanup
\* function it registered uninvoked
C11_AddRunsSetupOnce ==
    (lastOp.op = "add" /\ lastOp.before.present) =>
        /\ Cardinality({i \in 1..Len(lastOp.events) :
                           lastOp.events[i].e = "setup"}) = 1
        /\ lastOp.events[Len(lastOp.events)].e = "setup"
        /\ ~lastOp.threw =>
              LET r == lastOp.events[Len(lastOp.events)].r
              IN  /\ r = Len(res)
                  /\ r \notin MapValues(Before)
                  /\ r \in MapValues(After)
                  /\ res[r].calls = 0
                  /\ TimesInvoked(r) = 0

C11_Witness ==
    /\ lastOp.op = "add"
    /\ lastOp.before.present
    /\ ~lastOp.threw
    /\ Len(lastOp.events) = 2

\* C12: a setup that throws makes add throw to its caller, unlogged, and
\* the registry holds the same keys as before the call
ThrownCleanups ==
    {i \in 1..Len(lastOp.events) :
        lastOp.events[i].e = "cleanup" /\ lastOp.events[i].threw}

C12_SetupThrowPropagates ==
    (/\ lastOp.op = "add"
     /\ \E i \in 1..Len(lastOp.events) :
           lastOp.events[i].e = "setup" /\ lastOp.events[i].threw) =>
        /\ lastOp.threw
        /\ lastOp.logs = Cardinality(ThrownCleanups)
        /\ MapKeys(After) = MapKeys(Before)
        /\ Len(After) = Len(Before)

C12_Witness ==
    /\ lastOp.op = "add"
    /\ lastOp.threw
    /\ Len(Before) >= 1
    /\ lastOp.key \notin MapKeys(Before)

\* C20: a handler call makes exactly one console.error call for each
\* cleanup function that threw in it (dispose, keyed replacement, final
\* drain) and none when no cleanup function threw
C20_OneLogPerFailure ==
    lastOp.logs = Cardinality(ThrownCleanups)

C20_Witness ==
    /\ lastOp.op = "unmount"
    /\ lastOp.logs = 2
    /\ Len(lastOp.events) = 2

\* C13: once a logic's mount count has reached 0, its next mount starts with
\* an empty registry, and no cleanup function of the lifetime that ended is
\* held by a registry or invoked by add or dispose afterwards
C13_FreshLifetime ==
    /\ \A o \in Owners :
          HasData(o) => MapValues(Entries(o)) \cap ended = {}
    /\ (lastOp.op = "mount" /\ ~lastOp.before.present) =>
          LogicData(lastOp.owner) =
             [present |-> TRUE, disposables |-> <<>>, keyCounter |-> 0]
    /\ lastOp.op \in {"add", "dispose"} =>
          \A i \in 1..Len(lastOp.events) :
             lastOp.events[i].e = "cleanup" => lastOp.events[i].r \notin ended

C13_Witness ==
    /\ lastOp.op = "dispose"
    /\ ~lastOp.result
    /\ lastOp.before.present
    /\ \E r \in ended :
          res[r].owner = lastOp.owner /\ res[r].disposableKey = lastOp.key

\* C14: once dispose(key) has returned true the cleanup function it invoked
\* is in no registry, is never put back and is never invoked again (the
\* final unmount included), and a dispose(key) straight after it returns
\* false and invokes nothing
Held == UNION {MapValues(logicDisposables[o].disposables) :
                  o \in DOMAIN logicDisposables}

C14_DisposedStaysGone ==
    [][/\ (lastOp'.op = "dispose" /\ lastOp'.result) =>
             /\ lastOp'.key \notin
                   MapKeys(logicDisposables'[lastOp'.owner].disposables)
             /\ \A i \in 1..Len(lastOp'.events) : lastOp'.events[i].r \notin Held'
       /\ \A r \in 1..Len(res) :
             r \notin Held => (res'[r].calls = res[r].calls /\ r \notin Held')
       /\ (/\ lastOp.op = "dispose" /\ lastOp.result
           /\ lastOp'.op = "dispose"
           /\ lastOp'.owner = lastOp.owner /\ lastOp'.key = lastOp.key) =>
             (~lastOp'.result /\ lastOp'.events = <<>>)
      ]_vars

C14_Witness ==
    /\ lastOp.op = "dispose"
    /\ ~lastOp.result
    /\ \E r, earlier \in 1..Len(res) :
          /\ earlier < r
          /\ earlier \in Held
          /\ r \notin Held
          /\ res[r].owner = lastOp.owner
          /\ res[r].disposableKey = lastOp.key
          /\ res[r].calls = 1


\* C15: the visibilitychange listener is attached if and only if some logic
\* is mounted, which are exactly the registered ones; never more than one
\* listener is attached, and it stays attached until the last mounted
\* logic's final unmount.
Mounted == {o \in Owners : mountCount[o] > 0}

C15_ListenerIffRegistered ==
    /\ coordinator.owners = Mounted
    /\ coordinator.listeners = (IF Mounted = {} THEN 0 ELSE 1)

\* logic "a" has left for good while "b" holds two claims: still attached
C15_Witness ==
    /\ lastOp.op = "unmount" /\ lastOp.owner = "a" /\ lastOp.result
    /\ mountCount["b"] = 2
    /\ coordinator.listeners = 1


\* what the most recent call found in, and left in, the registry of o
VisBefore(o) ==
    IF o \in DOMAIN lastOp.registries THEN lastOp.registries[o].disposables ELSE <<>>

VisAfter(o) == IF HasData(o) THEN logicDisposables[o].disposables ELSE <<>>

NonPausable == {r \in 1..Len(res) : ~res[r].pausable}

\* the setup callback a resume event ran
ResumedSetup(ev) == IF ev.threw THEN ev.r ELSE res[ev.r].setup

\* C16: a transition to hidden invokes the teardown of every pausable entry
\* of every mounted logic once and removes the entry, and leaves every
\* non-pausable entry registered with its teardown not invoked; a transition
\* to visible re-runs no setup of a non-pausable entry and invokes no such
\* teardown; a non-pausable teardown is invoked at most once in all, exactly
\* once by the time its logic is fully unmounted, and the final unmount
\* invokes each one it finds registered once.
C16_PauseSparesNonPausable ==
    /\ lastOp.op = "hide" =>
          \A o \in DOMAIN lastOp.registries : \A i \in 1..Len(VisBefore(o)) :
             LET e == VisBefore(o)[i]
             IN  IF res[e.value].pausable
                 THEN TimesInvoked(e.value) = 1 /\ ~MapHas(VisAfter(o), e.key)
                 ELSE /\ TimesInvoked(e.value) = 0
                      /\ MapHas(VisAfter(o), e.key)
                      /\ MapGet(VisAfter(o), e.key) = e.value
    /\ lastOp.op = "show" =>
          /\ \A i \in 1..Len(lastOp.events) :
                /\ lastOp.events[i].e = "resume"
                /\ res[ResumedSetup(lastOp.events[i])].pausable
          /\ \A o \in DOMAIN lastOp.registries : \A i \in 1..Len(VisBefore(o)) :
                LET e == VisBefore(o)[i]
                IN  ~res[e.value].pausable =>
                       /\ MapHas(VisAfter(o), e.key)
                       /\ MapGet(VisAfter(o), e.key) = e.value
    /\ \A r \in NonPausable :
          /\ res[r].calls <= 1
          /\ mountCount[res[r].owner] = 0 => res[r].calls = 1
          /\ (/\ lastOp.op = "unmount" /\ lastOp.result
              /\ r \in MapValues(lastOp.before.disposables)) => TimesInvoked(r) = 1

\* a transition to visible has resumed an entry of logic "a" that was added
\* after a non-pausable entry which is still registered and never torn down
C16_Witness ==
    /\ lastOp.op = "show"
    /\ \E r \in NonPausable, i \in 1..Len(lastOp.events) :
          /\ ~lastOp.events[i].threw
          /\ res[lastOp.events[i].r].owner = res[r].owner
          /\ r < ResumedSetup(lastOp.events[i])
          /\ r \in MapValues(VisAfter(res[r].owner))
          /\ res[r].calls = 0


\* the resume events of the most recent call that ran setups of logic o
ResumesOf(o) ==
    SelectSeq(lastOp.events, LAMBDA ev : res[ResumedSetup(ev)].owner = o)

Resumed == {r \in 1..Len(res) : res[r].setup # r}

\* C17: a transition to visible runs, for each mounted logic, exactly the
\* setups in the paused list the transition to hidden left, each once and in
\* the list's order, which is insertion order; each setup that returned has
\* its new teardown registered under the entry's original key and the
\* paused list is empty afterwards; a teardown made by a resume is invoked
\* at most once, exactly once when its logic is fully unmounted, and the
\* final unmount invokes each one it finds registered once.
C17_ResumeInOrder ==
    /\ lastOp.op = "show" =>
          \A o \in DOMAIN lastOp.registries :
             LET plist == lastOp.paused[o]
                 evs == ResumesOf(o)
             IN  /\ Len(evs) = Len(plist)
                 /\ \A i \in 1..Len(plist) :
                       /\ ResumedSetup(evs[i]) = plist[i].setup
                       /\ ~evs[i].threw =>
                             /\ MapHas(VisAfter(o), plist[i].key)
                             /\ MapGet(VisAfter(o), plist[i].key) = evs[i].r
                             /\ res[evs[i].r].calls = 0
                 /\ paused[o] = <<>>
    /\ lastOp.op = "hide" =>
          \A o \in DOMAIN lastOp.registries :
             paused[o] = PausedList(VisBefore(o), res)
    /\ \A r \in Resumed :
          /\ res[r].calls <= 1
          /\ mountCount[res[r].owner] = 0 => res[r].calls = 1
          /\ (/\ lastOp.op = "unmount" /\ lastOp.result
              /\ r \in MapValues(lastOp.before.disposables)) => TimesInvoked(r) = 1

\* both paused entries of logic "a", one of them under key "k", have been
\* resumed by one transition to visible
C17_Witness ==
    /\ lastOp.op = "show"
    /\ Len(lastOp.paused["a"]) = 2
    /\ \E i \in 1..2 : lastOp.paused["a"][i].key = "k"
    /\ \A i \in 1..Len(lastOp.events) : ~lastOp.events[i].threw


\* the teardowns the resume events of logic o returned
ResumedOf(o) ==
    {ResumesOf(o)[i].r : i \in {j \in 1..Len(ResumesOf(o)) : ~ResumesOf(o)[j].threw}}

\* C18: a setup that throws when a transition to visible re-runs it is
\* logged once and the transition returns normally; every other paused
\* entry of every mounted logic is still resumed; the failed entry is not in
\* the registry and not in the paused list afterwards, which is empty
\* whenever the page is visible, so no later transition re-runs it; and a
\* final unmount invokes exactly the teardowns that are registered.
C18_ResumeFailureIsolated ==
    /\ lastOp.op = "show" =>
          /\ ~lastOp.threw
          /\ lastOp.logs =
                Cardinality({i \in 1..Len(lastOp.events) : lastOp.events[i].threw})
          /\ \A o \in DOMAIN lastOp.registries :
                LET plist == lastOp.paused[o]
                    evs == ResumesOf(o)
                IN  /\ Len(evs) = Len(plist)
                    /\ MapValues(VisAfter(o)) = MapValues(VisBefore(o)) \cup ResumedOf(o)
                    /\ \A i \in 1..Len(plist) :
                          evs[i].threw => ~MapHas(VisAfter(o), plist[i].key)
    /\ ~coordinator.hidden => \A o \in Owners : paused[o] = <<>>
    /\ (lastOp.op = "unmount" /\ lastOp.result) =>
          {r \in 1..Len(res) : TimesInvoked(r) > 0} = MapValues(lastOp.before.disposables)

\* one transition to visible has run three setups for the two logics: the
\* first threw and a later one returned
C18_Witness ==
    /\ lastOp.op = "show"
    /\ Len(lastOp.events) = 3
    /\ lastOp.events[1].threw
    /\ \E j \in 2..3 : ~lastOp.events[j].threw
    /\ \A o \in Owners : lastOp.paused[o] # <<>>


\* the teardowns of logic o the most recent call invoked, in order
TeardownsOf(o) ==
    LET evs == SelectSeq(lastOp.events,
                         LAMBDA ev : ev.e = "cleanup" /\ res[ev.r].owner = o)
    IN  [i \in 1..Len(evs) |-> evs[i].r]

\* C19: one transition to hidden or to visible covers every mounted logic;
\* for each of them a transition to hidden invokes the teardowns of its
\* pausable entries in the registry's insertion order, and a transition to
\* visible runs the setups of its paused list in the list's order, whatever
\* the order in which the logics are visited.
C19_EveryOwnerInOrder ==
    /\ lastOp.op \in {"hide", "show"} => DOMAIN lastOp.registries = Mounted
    /\ lastOp.op = "hide" =>
          \A o \in Mounted :
             LET d == PausableEntries(VisBefore(o), res)
             IN  TeardownsOf(o) = [i \in 1..Len(d) |-> d[i].value]
    /\ lastOp.op = "show" =>
          \A o \in Mounted :
             [i \in 1..Len(ResumesOf(o)) |-> ResumedSetup(ResumesOf(o)[i])]
                = [i \in 1..Len(lastOp.paused[o]) |-> lastOp.paused[o][i].setup]

\* one transition to hidden has torn down two entries of logic "a" and one
\* of logic "b"
C19_Witness ==
    /\ lastOp.op = "hide"
    /\ Len(TeardownsOf("a")) = 2
    /\ Len(TeardownsOf("b")) = 1

\* --------------------------------------------------- console.error calls
\* A message is the sequence of its space-separated words.
\* `[KEA] Disposable failed for logic ${logic.pathString}:`
DrainMessage(path) ==
    <<"[KEA]", "Disposable", "failed", "for", "logic", path>>

\* `[KEA] Manual dispose failed for key "${key}" in logic ${logic.pathString}:`
DisposeMessage(key, path) ==
    <<"[KEA]", "Manual", "dispose", "failed", "for", "key", key, "in", "logic", path>>

\* `[KEA] Previous disposable cleanup failed for key "${key}" in logic ...:`
ReplaceMessage(key, path) ==
    <<"[KEA]", "Previous", "disposable", "cleanup", "failed", "for", "key", key,
      "in", "logic", path>>

\* the message the catch block of the handler op passes to console.error
ErrorMessage(op, key, path) ==
    CASE op = "unmount" -> DrainMessage(path)
      [] op = "dispose" -> DisposeMessage(key, path)
      [] OTHER -> ReplaceMessage(key, path)

\* the messages console.error received during the most recent call: one per
\* cleanup function that threw
ConsoleErrors ==
    LET thrown == SelectSeq(lastOp.events, LAMBDA ev : ev.e = "cleanup" /\ ev.threw)
    IN  [i \in 1..Len(thrown) |-> ErrorMessage(lastOp.op, lastOp.key, lastOp.owner)]

\* stringContaining: phrase occurs in msg as consecutive words
Contains(msg, phrase) ==
    \E i \in 0..(Len(msg) - Len(phrase)) : SubSeq(msg, i + 1, i + Len(phrase)) = phrase

CleanupFailedPhrase == <<"[KEA]", "Disposable", "cleanup", "failed", "in", "logic">>

\* C21: every message logged for a cleanup function that throws during the
\* final drain or during dispose(key) contains
\* "[KEA] Disposable cleanup failed in logic".
C21_CleanupFailedMessage ==
    lastOp.op \in {"unmount", "dispose"} =>
       \A i \in 1..Len(ConsoleErrors) : Contains(ConsoleErrors[i], CleanupFailedPhrase)

\* C22: when add invokes the cleanup function stored under its key and that
\* function throws, the failure is logged once and caught, the new setup
\* runs next, and, the setup returning, add returns normally with the key
\* mapped to the new, not yet invoked cleanup function in the same place of
\* the registry.
C22_ReplaceSurvivesThrow ==
    (/\ lastOp.op = "add"
     /\ lastOp.events # <<>>
     /\ lastOp.events[1].e = "cleanup"
     /\ lastOp.events[1].threw) =>
        /\ lastOp.logs = 1
        /\ MapGet(Before, lastOp.key) = lastOp.events[1].r
        /\ Len(lastOp.events) = 2
        /\ lastOp.events[2].e = "setup"
        /\ ~lastOp.events[2].threw =>
              /\ ~lastOp.threw
              /\ lastOp.result
              /\ MapGet(After, lastOp.key) = lastOp.events[2].r
              /\ lastOp.events[2].r # lastOp.events[1].r
              /\ res[lastOp.events[2].r].calls = 0
              /\ MapKeys(After) = MapKeys(Before)

\* a replacing add whose previous cleanup threw has returned
C22_Witness ==
    /\ lastOp.op = "add"
    /\ Len(lastOp.events) = 2
    /\ lastOp.events[1].e = "cleanup" /\ lastOp.events[1].threw
    /\ ~lastOp.events[2].threw
    /\ lastOp.result
    /\ res[lastOp.events[1].r].calls = 1

\* C23: a run of the beforeUnmount handler for a logic whose final drain is
\* done (mount count 0, nothing added since) invokes no cleanup function,
\* logs nothing and leaves the registries, the mount counts and every
\* cleanup function as they were.
C23_DrainIsIdempotent ==
    [][lastOp'.op = "drain" =>
          /\ lastOp'.events = <<>>
          /\ lastOp'.logs = 0
          /\ ~lastOp'.threw
          /\ UNCHANGED <<logicDisposables, mountCount, res>>]_vars

\* the handler has run again after a final drain that invoked a cleanup
C23_Witness ==
    /\ lastOp.op = "drain"
    /\ \E r \in ResOf(lastOp.owner) : res[r].calls = 1 /\ r \in ended

\* C24: a mount of a logic that is already mounted invokes no cleanup
\* function and leaves the logic's registry, entries, order and key counter
\* as they were; the entries are invoked by the unmount that drops the last
\* claim, which invokes every registered cleanup function once.
C24_ExtraMountKeepsRegistry ==
    /\ (lastOp.op = "mount" /\ lastOp.before.present) =>
          /\ lastOp.events = <<>>
          /\ lastOp.logs = 0
          /\ LogicData(lastOp.owner) = lastOp.before
          /\ mountCount[lastOp.owner] >= 2
    /\ (lastOp.op = "unmount" /\ lastOp.before.present /\ mountCount[lastOp.owner] = 0) =>
          [i \in 1..Len(lastOp.events) |-> lastOp.events[i].r]
             = [i \in 1..Len(Before) |-> Before[i].value]

\* the second claim on a logic that holds two entries, neither invoked
C24_Witness ==
    /\ lastOp.op = "mount"
    /\ mountCount[lastOp.owner] = 2
    /\ Len(After) = 2
    /\ \A r \in MapValues(After) : res[r].calls = 0

\* C25: register for an owner that is already registered, and unregister
\* for an owner that is not registered, return normally and leave the
\* registered set, the number of attached listeners, the visibility state
\* and every registry unchanged.
C25_RegistrationIdempotent ==
    [][lastOp'.op \in {"register", "unregister"} =>
          /\ UNCHANGED <<coordinator, logicDisposables, paused, res, mountCount>>
          /\ ~lastOp'.threw]_vars

\* unregister of logic "a", which is not mounted, while logic "b" is: the
\* listener is still attached
C25_Witness ==
    /\ lastOp.op = "unregister" /\ lastOp.owner = "a"
    /\ coordinator.owners = {"b"}
    /\ coordinator.listeners = 1

\* everything the plugin keeps for logic p: its record in the index and the
\* cleanup functions its setups returned, with their invocation counts
OwnerView(p) == <<LogicData(p), [r \in ResOf(p) |-> res[r]]>>

\* C26: mount, unmount, add and dispose on one logic leave every other
\* logic's record (entries, order, key counter) and cleanup functions
\* exactly as they were, and every cleanup function or setup they run
\* belongs to the logic they were called on, also when both logics use the
\* same keys.
C26_OwnersIndependent ==
    [][/\ \A p \in Owners \ {lastOp'.owner} : UNCHANGED OwnerView(p)
       /\ \A i \in 1..Len(lastOp'.events) :
             lastOp'.events[i].r # 0 =>
                res'[lastOp'.events[i].r].owner = lastOp'.owner]_vars

\* logic "a" has disposed its entry under "k" while logic "b" holds an entry
\* under "k" that has not been invoked
C26_Witness ==
    /\ lastOp.op = "dispose" /\ lastOp.owner = "a" /\ lastOp.result
    /\ HasData("b")
    /\ MapHas(Entries("b"), "k")
    /\ res[MapGet(Entries("b"), "k")].calls = 0

C28_NoInvokedEntryHeld ==
    \A o \in Owners :
       HasData(o) => \A r \in MapValues(Entries(o)) : res[r].calls = 0

\* C29: add and dispose called for a logic that has no record in the index
\* (before its first mount, after its final unmount) run no setup and no
\* cleanup function, log nothing, throw nothing and create no record;
\* dispose returns false.
C29_NoRegistryNoEffect ==
    (lastOp.op \in {"add", "dispose"} /\ ~lastOp.before.present) =>
        /\ lastOp.events = <<>>
        /\ lastOp.logs = 0
        /\ ~lastOp.threw
        /\ ~lastOp.result
        /\ ~HasData(lastOp.owner)
        /\ mountCount[lastOp.owner] = 0

\* add called after the final unmount of a logic that had an entry
C29_Witness ==
    /\ lastOp.op = "add"
    /\ ~lastOp.before.present
    /\ \E r \in ResOf(lastOp.owner) : res[r].calls = 1

\* C30: between handler calls the index holds a record for a logic if and
\* only if the logic's mount count is above 0: the mount from 0 to 1 creates
\* it, empty, and the unmount that reaches 0 deletes it, also when a cleanup
\* function threw during the drain.
C30_RecordIffMounted ==
    /\ \A o \in Owners : HasData(o) <=> mountCount[o] > 0
    /\ (lastOp.op = "mount" /\ ~lastOp.before.present) =>
          /\ mountCount[lastOp.owner] = 1
          /\ LogicData(lastOp.owner).disposables = <<>>
    /\ (lastOp.op = "unmount" /\ ~HasData(lastOp.owner)) =>
          lastOp.before.present /\ lastOp.result

\* the final unmount has deleted the record although a cleanup function
\* threw during the drain
C30_Witness ==
    /\ lastOp.op = "unmount" /\ lastOp.result
    /\ lastOp.logs >= 1
    /\ ~HasData(lastOp.owner)
    /\ mountCount[lastOp.owner] = 0

\* C31: an add that replaces the entry of a key leaves the key where it was
\* first inserted, with every other entry unchanged around it, and the
\* final drain invokes the cleanup functions in the registry's order: after
\* add(a, "k"), add(b), add(c, "k") it invokes c's before b's.
C31_ReplacedKeyKeepsPosition ==
    /\ (/\ lastOp.op = "add" /\ lastOp.result
        /\ lastOp.key # NoKey /\ lastOp.key \in MapKeys(Before)) =>
          /\ Len(After) = Len(Before)
          /\ \A i \in 1..Len(Before) :
                /\ After[i].key = Before[i].key
                /\ Before[i].key # lastOp.key => After[i] = Before[i]
    /\ (lastOp.op = "unmount" /\ lastOp.result) =>
          [i \in 1..Len(lastOp.events) |-> lastOp.events[i].r]
             = [i \in 1..Len(Before) |-> Before[i].value]

\* the final drain has invoked the third cleanup function, stored under the
\* replaced key "k", before the second one, which was added without a key
C31_Witness ==
    /\ lastOp.op = "unmount" /\ lastOp.result
    /\ Len(res) = 3
    /\ res[1].key = "k" /\ res[2].key = NoKey /\ res[3].key = "k"
    /\ [i \in 1..Len(lastOp.events) |-> lastOp.events[i].r] = <<3, 2>>
    /\ res[1].calls = 1

\* C32: when cleanup functions call dispose(key) of their own logic while
\* they run inside dispose, a replacing add or the final drain, no cleanup
\* function is invoked more than once.
C32_ReentrantDisposeOnce ==
    \A r \in 1..Len(res) : res[r].calls <= 1

\* C33: a final unmount while the page is hidden invokes exactly the
\* teardowns still registered, each for the first time, so none that the
\* transition to hidden already invoked; it leaves the logic unregistered
\* with an empty paused list, which stays empty until the logic is mounted
\* again and paused anew; a transition to visible runs setups of mounted
\* logics only, as many as their paused lists hold; and no teardown is ever
\* invoked twice.
C33_UnmountWhileHidden ==
    /\ \A r \in 1..Len(res) : res[r].calls <= 1
    /\ \A o \in Owners :
          mountCount[o] = 0 => paused[o] = <<>> /\ o \notin coordinator.owners
    /\ (lastOp.op = "unmount" /\ lastOp.result) =>
          /\ [i \in 1..Len(lastOp.events) |-> lastOp.events[i].r]
                = [i \in 1..Len(Before) |-> Before[i].value]
          /\ \A i \in 1..Len(lastOp.paused[lastOp.owner]) :
                \A r \in 1..Len(res) :
                   res[r].setup = lastOp.paused[lastOp.owner][i].setup =>
                      TimesInvoked(r) = 0
    /\ lastOp.op = "show" =>
          \A i \in 1..Len(lastOp.events) :
             LET o == res[ResumedSetup(lastOp.events[i])].owner
             IN  /\ o \in Mounted
                 /\ \E j \in 1..Len(lastOp.paused[o]) :
                       lastOp.paused[o][j].setup = ResumedSetup(lastOp.events[i])

\* the final unmount of a logic, while hidden, that had a paused entry and a
\* registered non-pausable one
C33_Witness ==
    /\ lastOp.op = "unmount" /\ lastOp.result
    /\ coordinator.hidden
    /\ lastOp.paused[lastOp.owner] # <<>>
    /\ Before # <<>>
    /\ paused[lastOp.owner] = <<>>

\* C34: within one registry lifetime the key counter goes up by exactly one
\* at every add without a key, also when the setup throws, and is left
\* unchanged by add with a key, dispose, a further mount and a non-final
\* unmount; an add without a key stores under "__auto_<counter it found>",
\* and no two cleanup functions of one lifetime that were added without a
\* key have the same key.
C34_KeyCounterSteps ==
    /\ (lastOp.op \in {"add", "dispose", "mount", "unmount"}
          /\ lastOp.before.present /\ HasData(lastOp.owner)) =>
          LogicData(lastOp.owner).keyCounter =
             lastOp.before.keyCounter
                + (IF lastOp.op = "add" /\ lastOp.key = NoKey THEN 1 ELSE 0)
    /\ (lastOp.op = "add" /\ lastOp.key = NoKey /\ lastOp.result) =>
          /\ AutoKey(lastOp.before.keyCounter) \in MapKeys(After)
          /\ MapGet(After, AutoKey(lastOp.before.keyCounter)) = Len(res)
    /\ \A r1, r2 \in (1..Len(res)) \ ended :
          (/\ r1 # r2
           /\ res[r1].owner = res[r2].owner
           /\ res[r1].key = NoKey /\ res[r2].key = NoKey) =>
              res[r1].disposableKey # res[r2].disposableKey

\* the second add without a key of a lifetime threw in its setup, and the
\* counter went from 1 to 2
C34_Witness ==
    /\ lastOp.op = "add" /\ lastOp.key = NoKey
    /\ lastOp.threw
    /\ lastOp.before.keyCounter = 1
    /\ LogicData(lastOp.owner).keyCounter = 2

====
